---- MODULE Spec2Model ----
(***************************************************************************)
(* A model of the element codecs of NamedStruct / StarStruct:              *)
(*   namedstruct/elementvariable.py   ElementVariable                      *)
(*   starstruct/elementenum.py        ElementEnum                          *)
(*   namedstruct/elementfixedpoint.py ElementFixedPoint                    *)
(* One element is constructed (Init); a behaviour then observes one call   *)
(* of pack or unpack on it, with inputs drawn from bounded sets.  The call *)
(* records its arguments and its outcome (return value or raised           *)
(* exception) in `last'.  The process-wide decimal context precision is    *)
(* part of the state.                                                      *)
(*                                                                         *)
(* Bytes are integers 0..255, byte strings are sequences of them.  A call  *)
(* outcome is [ok |-> TRUE, ...] or [ok |-> FALSE, err |-> <exception>].   *)
(***************************************************************************)
EXTENDS Integers, Sequences, FiniteSets, TLC

VARIABLES element, decimal_context_prec, last

vars == <<element, decimal_context_prec, last>>

----------------------------------------------------------------------------
(* Bounds of the explored inputs *)

\* longest value list given to ElementVariable.pack
MaxUnits == 2
\* largest fixed repeat count
MaxRepeat == 2
\* largest value of the referenced count / budget field
MaxCount == 3
\* longest buffer given to ElementVariable.unpack
MaxVarBuf == 5
\* largest alignment of an Enum element
MaxAlign == 4
\* largest byte of a buffer given to ElementEnum.unpack / FixedPoint.unpack
MaxByte == 3
\* longest buffer given to ElementEnum.unpack
MaxEnumBuf == 4
\* longest buffer given to ElementFixedPoint.unpack
MaxFixedBuf == 2
\* FixedPoint inputs are the numbers n / XDen with -MaxNum <= n <= MaxNum
XDen == 2
MaxNum == 18
\* largest precision (fractional bits) of a FixedPoint element
MaxPrecision == 5

----------------------------------------------------------------------------
(* Generic helpers *)

SeqsUpTo(S, n) == UNION {[1..k -> S] : k \in 0..n}

Zeros(n) == [i \in 1..n |-> 0]

\* Python's int(): truncation towards zero of a / b, b > 0
TruncDiv(a, b) == IF a >= 0 THEN a \div b ELSE -((-a) \div b)

\* Python's buf[n:]
SliceFrom(buf, n) == IF n >= Len(buf) THEN <<>> ELSE SubSeq(buf, n + 1, Len(buf))

Raise(e) == [ok |-> FALSE, err |-> e]

----------------------------------------------------------------------------
(* The struct module, as the elements use it *)

\* byte-order prefixes of Mode
Modes == {"@", "<", ">", "!"}

BigEndian(mode) == mode \in {">", "!"}

calcsize(code) == CASE code \in {"b", "B"} -> 1
                    [] code \in {"h", "H"} -> 2

IsSigned(code) == code \in {"b", "h"}

Reverse(s) == [i \in 1..Len(s) |-> s[Len(s) + 1 - i]]

\* struct.Struct(mode + code).pack(v)
struct_pack(mode, code, v) ==
    LET s == calcsize(code)
        lo == IF IsSigned(code) THEN -(256^s \div 2) ELSE 0
        hi == IF IsSigned(code) THEN (256^s \div 2) - 1 ELSE 256^s - 1
        le == [i \in 1..s |-> ((v % 256^s) \div 256^(i-1)) % 256]
    IN IF v < lo \/ v > hi
       THEN Raise("struct.error")
       ELSE [ok |-> TRUE, data |-> IF BigEndian(mode) THEN Reverse(le) ELSE le]

RECURSIVE LEValue(_)
LEValue(bytes) == IF bytes = <<>> THEN 0
                  ELSE Head(bytes) + 256 * LEValue(Tail(bytes))

\* struct.Struct(mode + code).unpack_from(buf, 0)[0]
struct_unpack_from(mode, code, buf) ==
    LET s == calcsize(code)
        raw == SubSeq(buf, 1, s)
        u == LEValue(IF BigEndian(mode) THEN Reverse(raw) ELSE raw)
    IN IF Len(buf) < s
       THEN Raise("struct.error")
       ELSE [ok |-> TRUE,
             val |-> IF IsSigned(code) /\ u >= 256^s \div 2 THEN u - 256^s ELSE u]

----------------------------------------------------------------------------
(* The nested Message of a Variable element: an ordered list of scalar     *)
(* fields, given by their format codes; a nested record is the sequence of *)
(* its field values, the empty dict is <<>>.                               *)

\* the nested schemas explored: [('x','B')], [('x','H')],
\* [('x','B'),('y','B')] and [('x','B'),('y','H')]
NestedFormats == {<<"B">>, <<"H">>, <<"B", "B">>, <<"B", "H">>}

\* the field values, and the bytes of the buffers given to unpack
NestedValues == {0, 1}

RECURSIVE Message_len(_)
Message_len(format) ==
    IF format = <<>> THEN 0
    ELSE calcsize(Head(format)) + Message_len(Tail(format))

RECURSIVE PackFields(_, _, _)
PackFields(format, mode, rec) ==
    IF format = <<>> THEN <<>>
    ELSE struct_pack(mode, Head(format), Head(rec)).data
           \o PackFields(Tail(format), mode, Tail(rec))

\* Message.pack: every field of the schema is looked up in the record
Message_pack(format, mode, rec) ==
    IF Len(rec) # Len(format)
    THEN Raise("KeyError")
    ELSE [ok |-> TRUE, data |-> PackFields(format, mode, rec)]

RECURSIVE UnpackFields(_, _, _)
UnpackFields(format, mode, buf) ==
    IF format = <<>> THEN <<>>
    ELSE <<struct_unpack_from(mode, Head(format), buf).val>>
           \o UnpackFields(Tail(format), mode, SliceFrom(buf, calcsize(Head(format))))

\* Message.unpack_partial: the decoded record and the bytes left over
Message_unpack_partial(format, mode, buf) ==
    IF Len(buf) < Message_len(format)
    THEN Raise("struct.error")
    ELSE [ok |-> TRUE,
          val |-> UnpackFields(format, mode, buf),
          unused |-> SliceFrom(buf, Message_len(format))]

\* the nested records a format accepts, and the empty dict
NestedRecords(format) == [1..Len(format) -> NestedValues]

NestedElems(format) == NestedRecords(format) \cup {<<>>}

----------------------------------------------------------------------------
(* ElementVariable (namedstruct/elementvariable.py)                        *)

\* field[2]: a str field name, a bytes field name or an int repeat count
StrRef(v) == [type |-> "str", field |-> v, count |-> 0]
BytesRef(v) == [type |-> "bytes", field |-> v, count |-> 0]
IntRef(n) == [type |-> "int", field |-> "", count |-> n]

\* ElementVariable.__init__; field = <<name, nested Message, ref>>
ElementVariable_init(field, mode) ==
    LET ref == field[3]
    IN [kind |-> "variable",
        name |-> field[1],
        format |-> field[2],
        variable_repeat |-> ref.type \in {"str", "bytes"},
        object_length |-> IF ref.type \in {"str", "bytes"}
                          THEN ref.type = "str"
                          ELSE TRUE,
        \* a bytes ref is decoded to a str
        ref |-> IF ref.type = "bytes" THEN StrRef(ref.field) ELSE ref,
        mode |-> mode]

\* msg[key] of a dict
HasKey(msg, key) == key \in DOMAIN msg

\* b''.join(ret) of a list of pack outcomes built in order: the first
\* failing one raises
RECURSIVE Join(_)
Join(rets) ==
    IF rets = <<>> THEN [ok |-> TRUE, data |-> <<>>]
    ELSE IF ~Head(rets).ok THEN Head(rets)
    ELSE LET rest == Join(Tail(rets))
         IN IF ~rest.ok THEN rest
            ELSE [ok |-> TRUE, data |-> Head(rets).data \o rest.data]

\* a variant of PackObjectLinked that packs only as many units as the
\* referenced count field says
PackObjectLinked_counted(self, msg) ==
    LET values == msg[self.name]
        n == IF HasKey(msg, self.ref.field) /\ msg[self.ref.field] < Len(values)
             THEN msg[self.ref.field] ELSE Len(values)
    IN Join([i \in 1..n |->
               IF values[i] # <<>>
               THEN Message_pack(self.format, self.mode, values[i])
               ELSE Message_pack(self.format, self.mode, <<>>)])

\* pack, variable_repeat and object_length: one unit per entry of the list
PackObjectLinked(self, msg) ==
    LET values == msg[self.name]
    IN Join([i \in 1..Len(values) |->
               IF values[i] # <<>>
               THEN Message_pack(self.format, self.mode, values[i])
               ELSE Message_pack(self.format, self.mode, <<>>)])

\* pack, variable_repeat and not object_length: the loop over the entries
\* from index i on; `length' is the local of that name, which the loop
\* never assigns
RECURSIVE PackByteLoop(_, _, _, _, _)
PackByteLoop(self, msg, i, ret, length) ==
    IF i > Len(msg[self.name]) THEN [ok |-> TRUE, data |-> ret]
    ELSE LET temp_elem == Message_pack(self.format, self.mode, msg[self.name][i])
         IN IF ~temp_elem.ok THEN temp_elem
            ELSE IF ~HasKey(msg, self.ref.field) THEN Raise("KeyError")
            ELSE IF length + Len(temp_elem.data) <= msg[self.ref.field]
                 THEN PackByteLoop(self, msg, i + 1, ret \o temp_elem.data, length)
                 ELSE PackByteLoop(self, msg, i + 1, ret, length)

PackByteLinked(self, msg) == PackByteLoop(self, msg, 1, <<>>, 0)

\* a variant of PackFixedRepeat that pads a missing slot with a single
\* empty byte
PackFixedRepeat_onebyte(self, msg) ==
    LET values == msg[self.name]
    IN Join([index \in 1..self.ref.count |->
               IF index <= Len(values)
               THEN Message_pack(self.format, self.mode, values[index])
               ELSE [ok |-> TRUE, data |-> Zeros(1)]])

\* pack, fixed repeat: self.ref slots, the missing ones filled with
\* empty_byte * len(self.format)
PackFixedRepeat(self, msg) ==
    LET values == msg[self.name]
    IN Join([index \in 1..self.ref.count |->
               IF index <= Len(values)
               THEN Message_pack(self.format, self.mode, values[index])
               ELSE [ok |-> TRUE, data |-> Zeros(Message_len(self.format))]])

\* ElementVariable.pack
ElementVariable_pack(self, msg) ==
    IF self.variable_repeat
    THEN IF self.object_length
         THEN PackObjectLinked(self, msg)
         ELSE PackByteLinked(self, msg)
    ELSE PackFixedRepeat(self, msg)

\* getattr(msg, self.ref) on the result record
GetAttr(msg, ref) ==
    IF ref.type # "str" THEN Raise("TypeError")
    ELSE IF ~HasKey(msg, ref.field) THEN Raise("AttributeError")
    ELSE [ok |-> TRUE, val |-> msg[ref.field]]

\* the body of `for _ in range(n)' with todo iterations left; calls counts
\* the invocations of unpack_partial
RECURSIVE UnpackCountLoop(_, _, _, _, _)
UnpackCountLoop(self, todo, ret, unused, calls) ==
    IF todo <= 0 THEN [ok |-> TRUE, val |-> ret, unused |-> unused, calls |-> calls]
    ELSE LET r == Message_unpack_partial(self.format, self.mode, unused)
         IN IF ~r.ok THEN r
            ELSE UnpackCountLoop(self, todo - 1, Append(ret, r.val), r.unused, calls + 1)

\* unpack, object_length
UnpackObjectLinked(self, msg, buf) ==
    LET n == GetAttr(msg, self.ref)
    IN IF ~n.ok THEN n
       ELSE UnpackCountLoop(self, n.val, <<>>, buf, 0)

\* unpack, not object_length: `while length < getattr(msg, self.ref)';
\* len(val) is the length of the decoded record
RECURSIVE UnpackByteLoop(_, _, _, _, _, _)
UnpackByteLoop(self, msg, length, ret, unused, calls) ==
    LET budget == GetAttr(msg, self.ref)
    IN IF ~budget.ok THEN budget
       ELSE IF ~(length < budget.val)
       THEN [ok |-> TRUE, val |-> ret, unused |-> unused, calls |-> calls]
       ELSE LET r == Message_unpack_partial(self.format, self.mode, unused)
            IN IF ~r.ok THEN r
               ELSE UnpackByteLoop(self, msg, length + Len(r.val),
                                   Append(ret, r.val), r.unused, calls + 1)

UnpackByteLinked(self, msg, buf) == UnpackByteLoop(self, msg, 0, <<>>, buf, 0)

\* ElementVariable.unpack
ElementVariable_unpack(self, msg, buf) ==
    IF self.object_length
    THEN UnpackObjectLinked(self, msg, buf)
    ELSE UnpackByteLinked(self, msg, buf)

----------------------------------------------------------------------------
(* ElementEnum (starstruct/elementenum.py)                                 *)

\* the enumeration types: TestEnum of tests/test_jinja.py, and one whose
\* second member does not fit a one-byte layout
EnumClasses == {"TestEnum", "WideEnum"}

EnumDef(cls) ==
    CASE cls = "TestEnum" -> [EXAMPLE |-> 1, ANOTHER |-> 2, FINAL |-> 3]
      [] cls = "WideEnum" -> [LOW |-> 0, HIGH |-> 256]

MemberNames(cls) == DOMAIN EnumDef(cls)

\* the forms of a value given to pack: a member instance, a str, a raw value
Member(cls, name) == [tag |-> "member", cls |-> cls, name |-> name]
Str(s) == [tag |-> "str", str |-> s]
RawValue(v) == [tag |-> "raw", raw |-> v]

MemberValue(m) == EnumDef(m.cls)[m.name]

\* ElementEnum.__init__; field = <<name, format code, enum type>>
ElementEnum_init(field, mode, alignment) ==
    [kind |-> "enum",
     name |-> field[1],
     ref |-> field[3],
     mode |-> mode,
     alignment |-> alignment,
     format |-> <<mode, field[2]>>]

\* self.ref(item): the member with that value
EnumByValue(cls, item) ==
    IF item.tag = "raw" /\ \E n \in MemberNames(cls) : EnumDef(cls)[n] = item.raw
    THEN [ok |-> TRUE,
          val |-> Member(cls, CHOOSE n \in MemberNames(cls) : EnumDef(cls)[n] = item.raw)]
    ELSE Raise("ValueError")

\* a variant of EnumNormalize that looks a raw value up off by one
EnumNormalize_shifted(self, item) ==
    IF item.tag = "member" /\ item.cls = self.ref
    THEN [ok |-> TRUE, val |-> item]
    ELSE IF item.tag = "str"
    THEN IF item.str \in MemberNames(self.ref)
         THEN [ok |-> TRUE, val |-> Member(self.ref, item.str)]
         ELSE Raise("ValueError")
    ELSE IF item.tag = "raw"
    THEN EnumByValue(self.ref, RawValue(item.raw + 1))
    ELSE EnumByValue(self.ref, item)

\* pack / make: the value to pack could be a raw value, an enum value, or a
\* string that represents the enum value
EnumNormalize(self, item) ==
    IF item.tag = "member" /\ item.cls = self.ref
    THEN [ok |-> TRUE, val |-> item]
    ELSE IF item.tag = "str"
    THEN IF item.str \in MemberNames(self.ref)
         THEN [ok |-> TRUE, val |-> Member(self.ref, item.str)]
         ELSE Raise("ValueError")
    ELSE EnumByValue(self.ref, item)

\* the padding pack appends to data
PackPadding(self, data) ==
    LET missing_bytes == Len(data) % self.alignment
    IN IF missing_bytes # 0 THEN Zeros(missing_bytes) ELSE <<>>

\* ElementEnum.pack
ElementEnum_pack(self, msg) ==
    LET enum_item == EnumNormalize(self, msg[self.name])
    IN IF ~enum_item.ok THEN enum_item
       ELSE LET data == struct_pack(self.format[1], self.format[2],
                                    MemberValue(enum_item.val))
            IN IF ~data.ok THEN data
               ELSE [ok |-> TRUE, data |-> data.data \o PackPadding(self, data.data)]

\* the padding unpack skips
UnpackPadding(self) ==
    self.alignment - 1 - (calcsize(self.format[2]) % self.alignment)

\* ElementEnum.unpack
ElementEnum_unpack(self, msg, buf) ==
    LET ret == struct_unpack_from(self.format[1], self.format[2], buf)
    IN IF ~ret.ok THEN ret
       ELSE LET extra_bytes == UnpackPadding(self)
                unused == SliceFrom(buf, calcsize(self.format[2]) + extra_bytes)
                member == EnumByValue(self.ref, RawValue(ret.val))
            IN IF ~member.ok THEN member
               ELSE [ok |-> TRUE, val |-> member.val, unused |-> unused]

----------------------------------------------------------------------------
(* ElementFixedPoint (namedstruct/elementfixedpoint.py)                    *)
(* A number is the integer n standing for n / XDen; an unpacked Decimal is *)
(* [num, den], the exact quotient: with the precisions explored every      *)
(* quotient has fewer significant digits than the context allows.          *)

\* the byte counts of bits_format
bits_format(code) ==
    CASE code \in {"c", "b", "B"} -> 1
      [] code \in {"h", "H"} -> 2
      [] code \in {"i", "I", "l", "L"} -> 4
      [] code \in {"q", "Q"} -> 8
      [] OTHER -> 0 - 1

\* get_bits_length: pack_format is the sequence of the format's characters
get_bits_length(pack_format) ==
    LET stripped == IF pack_format[1] \in {"@", "=", "<", ">", "+"}
                    THEN Tail(pack_format) ELSE pack_format
        bits == IF stripped # <<>> /\ bits_format(stripped[1]) > 0
                THEN bits_format(stripped[1]) * 4
                ELSE 0 - 1
    IN IF bits = 0 - 1 THEN Raise("ValueError") ELSE [ok |-> TRUE, val |-> bits]

\* get_fixed_point
get_fixed_point(num, pack_format, precision) ==
    LET bits == get_bits_length(pack_format)
    IN IF ~bits.ok THEN bits
       ELSE IF bits.val < precision THEN Raise("ValueError")
       ELSE IF num >= XDen * 2^(bits.val - precision) THEN Raise("ValueError")
       ELSE [ok |-> TRUE, val |-> TruncDiv(num * 2^precision, XDen)]

\* ElementFixedPoint.__init__; field = <<name, "F", pack_format, precision>>
\* or <<name, "F", pack_format, precision, decimal_prec>>; FALSE is 0
ElementFixedPoint_init(field, mode) ==
    [kind |-> "fixedpoint",
     name |-> field[1],
     pack_format |-> field[3],
     precision |-> field[4],
     decimal_prec |-> IF Len(field) = 5 THEN field[5] ELSE 0,
     mode |-> mode,
     format |-> <<mode, field[3]>>]

\* ElementFixedPoint.pack
ElementFixedPoint_pack(self, msg) ==
    LET packing_decimal == msg[self.name]
        fixed_point == get_fixed_point(packing_decimal, self.format, self.precision)
    IN IF ~fixed_point.ok THEN fixed_point
       ELSE struct_pack(self.format[1], self.format[2], fixed_point.val)

\* the precision unpack sets in decimal.getcontext()
UnpackContextPrec(self) ==
    IF self.decimal_prec # 0 THEN self.decimal_prec ELSE 26

\* ElementFixedPoint.unpack
ElementFixedPoint_unpack(self, msg, buf) ==
    LET ret == struct_unpack_from(self.format[1], self.format[2], buf)
    IN IF ~ret.ok THEN ret
       ELSE [ok |-> TRUE,
             val |-> [num |-> ret.val, den |-> 2^self.precision],
             unused |-> SliceFrom(buf, calcsize(self.format[2]))]

----------------------------------------------------------------------------
(* The elements that can be constructed, and the inputs of the calls *)

VariableRefs == {StrRef("length"), BytesRef("length")}
                  \cup {IntRef(n) : n \in 0..MaxRepeat}

VariableElements ==
    {ElementVariable_init(<<"vardata", f, r>>, m) :
        f \in NestedFormats, r \in VariableRefs, m \in Modes}

EnumCodes == {"B", "H"}

EnumElements ==
    {ElementEnum_init(<<"a", c, cls>>, m, al) :
        c \in EnumCodes, cls \in EnumClasses, m \in Modes, al \in 1..MaxAlign}

FixedPointCodes == {"b", "B", "h", "H"}

\* the decimal_prec values explored besides the default
DecimalPrecs == {12}

FixedPointElements ==
    {ElementFixedPoint_init(<<"my_fixed_point", "F", c, p>>, m) :
        c \in FixedPointCodes, p \in 0..MaxPrecision, m \in Modes}
    \cup
    {ElementFixedPoint_init(<<"my_fixed_point", "F", c, p, dp>>, m) :
        c \in FixedPointCodes, p \in 0..MaxPrecision, m \in Modes, dp \in DecimalPrecs}

\* the precision of decimal.getcontext() when the process starts
InitialContextPrecs == {28}

\* the dicts given to ElementVariable.pack
VariablePackMsgs(self) ==
    LET lists == SeqsUpTo(NestedElems(self.format), MaxUnits)
    IN {[vardata |-> l] : l \in lists}
         \cup {[vardata |-> l, length |-> c] : l \in lists, c \in 0..MaxCount}

\* the result records given to ElementVariable.unpack
VariableUnpackMsgs == {<<>>} \cup {[length |-> k] : k \in 0..MaxCount}

VariableBuffers == SeqsUpTo(NestedValues, MaxVarBuf)

EnumItems ==
    {Member(cls, n) : cls \in {"TestEnum"}, n \in MemberNames("TestEnum")}
    \cup {Member(cls, n) : cls \in {"WideEnum"}, n \in MemberNames("WideEnum")}
    \cup {Str(n) : n \in MemberNames("TestEnum") \cup MemberNames("WideEnum")
                         \cup {"MISSING"}}
    \cup {RawValue(v) : v \in 0..MaxByte}
    \cup {RawValue(EnumDef(cls)[n]) : cls \in {"WideEnum"}, n \in MemberNames("WideEnum")}

EnumBuffers == SeqsUpTo(0..MaxByte, MaxEnumBuf)

FixedPointNums == (0 - MaxNum)..MaxNum

FixedPointBuffers == SeqsUpTo(0..MaxByte, MaxFixedBuf)

----------------------------------------------------------------------------
(* The state machine *)

Init ==
    /\ element \in VariableElements \cup EnumElements \cup FixedPointElements
    /\ decimal_context_prec \in InitialContextPrecs
    /\ last = [op |-> "init"]

VariablePack ==
    /\ last.op = "init"
    /\ element.kind = "variable"
    /\ \E msg \in VariablePackMsgs(element) :
          last' = [op |-> "pack", msg |-> msg,
                   ret |-> ElementVariable_pack(element, msg)]
    /\ UNCHANGED <<element, decimal_context_prec>>

VariableUnpack ==
    /\ last.op = "init"
    /\ element.kind = "variable"
    /\ \E msg \in VariableUnpackMsgs, buf \in VariableBuffers :
          last' = [op |-> "unpack", msg |-> msg, buf |-> buf,
                   ret |-> ElementVariable_unpack(element, msg, buf)]
    /\ UNCHANGED <<element, decimal_context_prec>>

EnumPack ==
    /\ last.op = "init"
    /\ element.kind = "enum"
    /\ \E item \in EnumItems :
          LET msg == [a |-> item]
          IN last' = [op |-> "pack", msg |-> msg,
                      ret |-> ElementEnum_pack(element, msg)]
    /\ UNCHANGED <<element, decimal_context_prec>>

EnumUnpack ==
    /\ last.op = "init"
    /\ element.kind = "enum"
    /\ \E buf \in EnumBuffers :
          last' = [op |-> "unpack", msg |-> <<>>, buf |-> buf,
                   ret |-> ElementEnum_unpack(element, <<>>, buf)]
    /\ UNCHANGED <<element, decimal_context_prec>>

FixedPointPack ==
    /\ last.op = "init"
    /\ element.kind = "fixedpoint"
    /\ \E num \in FixedPointNums :
          LET msg == [my_fixed_point |-> num]
          IN last' = [op |-> "pack", msg |-> msg,
                      ret |-> ElementFixedPoint_pack(element, msg)]
    /\ UNCHANGED <<element, decimal_context_prec>>

\* unpack_from raises before the context is touched
FixedPointUnpack ==
    /\ last.op = "init"
    /\ element.kind = "fixedpoint"
    /\ \E buf \in FixedPointBuffers :
          LET ret == ElementFixedPoint_unpack(element, <<>>, buf)
          IN /\ last' = [op |-> "unpack", msg |-> <<>>, buf |-> buf, ret |-> ret]
             /\ decimal_context_prec' = IF ret.ok THEN UnpackContextPrec(element)
                                        ELSE decimal_context_prec
    /\ UNCHANGED element

Next ==
    \/ VariablePack
    \/ VariableUnpack
    \/ EnumPack
    \/ EnumUnpack
    \/ FixedPointPack
    \/ FixedPointUnpack

Spec == Init /\ [][Next]_vars

----------------------------------------------------------------------------
(* Properties *)

IsVariable == element.kind = "variable"
ObjectCountLinked == IsVariable /\ element.variable_repeat /\ element.object_length
ByteLengthLinked == IsVariable /\ element.variable_repeat /\ ~element.object_length
FixedRepeat == IsVariable /\ ~element.variable_repeat

UnitSize == Message_len(element.format)

\* the first n entries of a value list are records of the nested format
Accepted(values, n) ==
    \A i \in 1..n : values[i] \in NestedRecords(element.format)

\* the encodings of the first n entries of a value list, in list order
RECURSIVE Encodings(_, _)
Encodings(values, n) ==
    IF n = 0 THEN <<>>
    ELSE Encodings(values, n - 1)
           \o Message_pack(element.format, element.mode, values[n]).data

\* the i-th unit of a buffer, decoded
DecodedUnit(buf, i) ==
    Message_unpack_partial(element.format, element.mode,
                           SubSeq(buf, (i - 1) * UnitSize + 1, i * UnitSize)).val

Min(a, b) == IF a < b THEN a ELSE b

\* C1: for an object-count-linked Variable element, pack of a list of k
\* nested records returns the k nested encodings concatenated in list
\* order, whatever the count field holds (or whether it is there at all);
\* unpack with the count field decoded as k, on a buffer that holds k units,
\* calls unpack_partial k times and returns the k decoded records and the
\* bytes after the k-th unit.
C1_ObjectCountLinked ==
    ObjectCountLinked =>
      /\ (last.op = "pack" /\ Accepted(last.msg.vardata, Len(last.msg.vardata))) =>
            /\ last.ret.ok
            /\ last.ret.data = Encodings(last.msg.vardata, Len(last.msg.vardata))
            /\ Len(last.ret.data) = Len(last.msg.vardata) * UnitSize
      /\ (last.op = "unpack" /\ HasKey(last.msg, "length")
             /\ Len(last.buf) >= last.msg.length * UnitSize) =>
            /\ last.ret.ok
            /\ last.ret.calls = last.msg.length
            /\ Len(last.ret.val) = last.msg.length
            /\ \A i \in 1..last.msg.length : last.ret.val[i] = DecodedUnit(last.buf, i)
            /\ last.ret.unused = SliceFrom(last.buf, last.msg.length * UnitSize)

\* C1 witness: two records were packed while the count field said 0
C1_Witness ==
    /\ ObjectCountLinked
    /\ last.op = "pack"
    /\ Len(last.msg.vardata) = 2
    /\ HasKey(last.msg, "length") /\ last.msg.length = 0
    /\ last.ret.ok /\ Len(last.ret.data) = 2 * UnitSize

\* C2: for a byte-length-linked Variable element, a successful unpack
\* removes exactly as many bytes from the buffer as the budget field says.
\* Stated for the budgets that are a whole number of units.
C2_UnpackConsumesBudget ==
    (ByteLengthLinked /\ last.op = "unpack" /\ last.ret.ok
       /\ last.msg.length % UnitSize = 0) =>
        Len(last.buf) - Len(last.ret.unused) = last.msg.length

\* C3: for a fixed-repeat Variable element with count N and a list of m
\* entries, pack emits the encodings of the first min(m, N) entries followed
\* by N - m empty encodings when m < N; the output is N units long.
C3_FixedRepeatPack ==
    (FixedRepeat /\ last.op = "pack"
       /\ Accepted(last.msg.vardata, Min(Len(last.msg.vardata), element.ref.count))) =>
        LET N == element.ref.count
            m == Len(last.msg.vardata)
        IN /\ last.ret.ok
           /\ last.ret.data = Encodings(last.msg.vardata, Min(m, N))
                                \o Zeros((N - Min(m, N)) * UnitSize)
           /\ Len(last.ret.data) = N * UnitSize

\* C3 witness: one entry was packed into two slots
C3_Witness ==
    /\ FixedRepeat
    /\ last.op = "pack"
    /\ element.ref.count = 2
    /\ Len(last.msg.vardata) = 1
    /\ UnitSize > 1
    /\ last.ret.ok

\* C4: for a fixed-repeat Variable element with count N, unpack of the
\* encoding of N nested records followed by any bytes returns the N records
\* and those bytes, in N calls of unpack_partial, whatever the result record
\* holds.
C4_FixedRepeatRoundTrip ==
    (FixedRepeat /\ last.op = "unpack") =>
        \A values \in [1..element.ref.count -> NestedRecords(element.format)] :
            LET data == Encodings(values, element.ref.count)
            IN (Len(last.buf) >= Len(data) /\ SubSeq(last.buf, 1, Len(data)) = data) =>
                  /\ last.ret.ok
                  /\ last.ret.val = values
                  /\ last.ret.calls = element.ref.count
                  /\ last.ret.unused = SliceFrom(last.buf, Len(data))

IsEnum == element.kind = "enum"

\* the member of the element's enumeration a str or raw item stands for
StandsFor(item, n) ==
    \/ item.tag = "str" /\ item.str = n
    \/ item.tag = "raw" /\ item.raw = EnumDef(element.ref)[n]

\* C5: pack of a member's name, and pack of its raw value, have the outcome
\* of pack of the member instance.
C5_EnumForms ==
    (IsEnum /\ last.op = "pack") =>
        \A n \in MemberNames(element.ref) :
            StandsFor(last.msg.a, n) =>
                LET byMember == ElementEnum_pack(element, [a |-> Member(element.ref, n)])
                IN /\ last.ret.ok = byMember.ok
                   /\ last.ret.ok => last.ret.data = byMember.data

\* C5 witness: a raw value of a member was packed
C5_Witness ==
    /\ IsEnum
    /\ last.op = "pack"
    /\ last.msg.a.tag = "raw"
    /\ \E n \in MemberNames(element.ref) : StandsFor(last.msg.a, n)
    /\ last.ret.ok

\* s rounded up to the next multiple of a
RoundUp(s, a) == ((s + a - 1) \div a) * a

\* C6: the length of Enum pack's output is the layout size rounded up to
\* the next multiple of the alignment.
C6_EnumPackLength ==
    (IsEnum /\ last.op = "pack" /\ last.ret.ok) =>
        Len(last.ret.data) = RoundUp(calcsize(element.format[2]), element.alignment)

IsFixedPoint == element.kind = "fixedpoint"

Abs(x) == IF x < 0 THEN -x ELSE x

\* C7: with W the bit width of the primitive code and P <= W, FixedPoint
\* pack of x fails exactly when |x| >= 2^(W-P); otherwise unpack of the
\* packed bytes is within 2^-P of x.
C7_FixedPointRange ==
    (IsFixedPoint /\ last.op = "pack"
       /\ element.precision <= 8 * calcsize(element.pack_format)) =>
        LET W == 8 * calcsize(element.pack_format)
            P == element.precision
            num == last.msg.my_fixed_point
        IN /\ ~last.ret.ok <=> Abs(num) >= XDen * 2^(W - P)
           /\ last.ret.ok =>
                LET back == ElementFixedPoint_unpack(element, <<>>, last.ret.data)
                IN /\ back.ok
                   /\ Abs(back.val.num * XDen - num * back.val.den) < XDen
                   /\ back.val.den = 2^P

\* C8: for a byte-length-linked Variable element, pack's output is never
\* longer than the budget held by the referenced field.
C8_PackWithinBudget ==
    (ByteLengthLinked /\ last.op = "pack" /\ last.ret.ok
       /\ HasKey(last.msg, "length")) =>
        Len(last.ret.data) <= last.msg.length

\* C9: Enum unpack of pack(m) followed by bytes t returns m and exactly t.
C9_EnumRoundTrip ==
    (IsEnum /\ last.op = "unpack") =>
        \A n \in MemberNames(element.ref) :
            LET p == ElementEnum_pack(element, [a |-> Member(element.ref, n)])
            IN (p.ok /\ Len(last.buf) >= Len(p.data)
                  /\ SubSeq(last.buf, 1, Len(p.data)) = p.data) =>
                  /\ last.ret.ok
                  /\ last.ret.val = Member(element.ref, n)
                  /\ last.ret.unused = SliceFrom(last.buf, Len(p.data))

\* C10: no call of pack or unpack changes the process-wide decimal context
\* or the attributes of the element.
C10_NoExternalMutation ==
    [][decimal_context_prec' = decimal_context_prec /\ element' = element]_vars

====
